---- MODULE Spec2Model ----
(***************************************************************************)
(* DomainBench: the judge protocol (core/evaluator.py) and the benchmark   *)
(* orchestrator (core/engine.py).                                          *)
(*                                                                         *)
(* Scores are floats in the program.  Raw and normalized scores are kept   *)
(* here in HALVES (the integer n stands for n/2), the reconciled scores of *)
(* evaluate_pair in TENTHS, summary averages in HUNDREDTHS.  A float that  *)
(* is NaN is the record with k = "nan".                                    *)
(***************************************************************************)
EXTENDS Integers, Sequences, FiniteSets, TLC

VARIABLES
    \* ---- JudgeEvaluator: one evaluate_pair call in progress ----
    jpc,          \* "idle" | "ab" | "ba" | "done" | "raised"
    attempt,      \* loop variable of _judge_once (attempts already failed)
    messages,     \* the messages list of the running _judge_once
    last_text,    \* last_text of the running _judge_once
    j_ab,         \* verdict of the direct ordering
    j_ba,         \* verdict of the swapped ordering
    verdict,      \* value returned by evaluate_pair
    callsAB,      \* judge gateway calls issued for the direct ordering
    callsBA,      \* judge gateway calls issued for the swapped ordering
    unparsedAB,   \* replies of the direct ordering safe_json_loads gave None for
    unparsedBA,   \* replies of the swapped ordering safe_json_loads gave None for
    reply,        \* text of the attempt on which each _judge_once returned
    \* ---- BenchmarkEngine ----
    config,       \* BenchmarkConfig: models, capabilities, judge, max_items
    dataset_file, \* the test cases in the JSONL file at dataset_path
    dataset,      \* local of run(): the loaded, then cut, dataset
    pc,           \* position of run()
    idx,          \* index of the test case in work (1-based)
    capPos,       \* position in self.capabilities of the capability in work
    responses,    \* responses obtained for the (case, capability) in work
    model_stats,  \* local of run()
    category_stats, \* local of run()
    results,      \* self.results
    summary,      \* self.summary
    error,        \* exception leaving run(): "none" | "config" | "model_gateway" |
                  \* "judge_gateway"
    modelCalls,   \* model gateway calls issued by this run
    judgeCalled,  \* whether this run has issued a judge gateway call
    \* ---- the judge model behind the gateway, and a caller comparing two calls ----
    oracle,       \* the judge as a function: prompt order -> its replies by attempt
    earlier       \* the verdict of an earlier evaluate_pair call, kept by the caller

jvars == <<jpc, attempt, messages, last_text, j_ab, j_ba, verdict, callsAB, callsBA,
          unparsedAB, unparsedBA, reply>>
evars == <<config, dataset_file, dataset, pc, idx, capPos, responses, model_stats,
           category_stats, results, summary, error, modelCalls, judgeCalled>>
mvars == <<oracle, earlier>>
vars == <<jvars, evars, mvars>>

(***************************************************************************)
(* Bounds of the model and constants of the program                        *)
(***************************************************************************)
MaxPairs == 2          \* most (test case, capability) pairs of a run
Overshoot == 1         \* how far (in halves) raw scores leave [0,10]
max_retries == 2       \* JudgeEvaluator.__init__ default
ScoreMax == 10         \* upper clamp of clamp_score
ReasonCap == 8         \* normalize_judge_result keeps 8 reasons
FinalReasonCap == 6    \* evaluate_pair keeps 6 reasons

MISSING == "<missing>"

(***************************************************************************)
(* JSON values a judge reply can carry                                     *)
(***************************************************************************)
\* a raw score field: k = "num" (JSON number n/2), "numstr" (a string float()
\* accepts, value n/2), "str" (any other string), "nan" (NaN or "nan"),
\* "inf", "ninf", "null", "missing"
RawNum(n) == [k |-> "num", n |-> n]
RawOther(k) == [k |-> k, n |-> 0]
RawScores ==
    { RawNum(0 - Overshoot), RawNum(7), RawNum(2 * ScoreMax + Overshoot),
      [k |-> "numstr", n |-> 7],
      RawOther("str"), RawOther("nan"), RawOther("inf"), RawOther("ninf"),
      RawOther("null"), RawOther("missing") }

\* a raw winner field: a JSON string, MISSING, or "<number>" for a non-string
RawWinners == {"A", "B", "tie", "a", "<number>", MISSING}

\* an item of a reasons list: a JSON string, or another JSON value (a
\* number, null) with v what str() makes of it
StrItem(v) == [t |-> "str", v |-> v]
NumItem(v) == [t |-> "num", v |-> v]
NullItem == [t |-> "null", v |-> "None"]

LongReasons ==
    << StrItem("r1"), StrItem("r2"), StrItem("r3"), StrItem("r4"), StrItem("r5"),
       StrItem("r6"), StrItem("r7"), StrItem("r8"), StrItem("r9") >>

\* a raw reasons field: k = "list" (items), "scalar" (one non-list value,
\* items = <<it>>), "missing"
RawReasons ==
    { [k |-> "list", items |-> <<StrItem("r2"), StrItem("r1"), StrItem("r2")>>],
      [k |-> "list", items |-> <<NumItem("1"), StrItem("1"), StrItem("r9")>>],
      [k |-> "list", items |-> LongReasons],
      [k |-> "scalar", items |-> <<StrItem("r1")>>],
      [k |-> "scalar", items |-> <<NullItem>>],
      [k |-> "missing", items |-> <<>>] }

NoFields == [winner |-> MISSING, score_A |-> RawOther("missing"),
             score_B |-> RawOther("missing"),
             reasons |-> [k |-> "missing", items |-> <<>>]]

\* what json.loads yields: kind "dict" with its fields, "scalar" for any
\* other non-null value, "null", or "garbage" for text that is not JSON
JsonDict(w, a, b, r) ==
    [kind |-> "dict", f |-> [winner |-> w, score_A |-> a, score_B |-> b, reasons |-> r]]
JsonOther(kind) == [kind |-> kind, f |-> NoFields]

ListReasons == [k |-> "list", items |-> <<StrItem("r1"), StrItem("r2")>>]

\* every winner with two pairs of numbers, every raw score in each of the
\* two fields, and every shape of reasons
NumPairs == { <<RawNum(7), RawNum(2 * ScoreMax + Overshoot)>>, <<RawNum(0 - Overshoot), RawNum(7)>> }
DictBodies ==
    { JsonDict(w, p[1], p[2], ListReasons) : w \in RawWinners, p \in NumPairs }
    \cup { JsonDict("A", a, RawNum(7), ListReasons) : a \in RawScores }
    \cup { JsonDict("A", RawNum(7), b, ListReasons) : b \in RawScores }
    \cup { JsonDict("A", RawNum(7), RawNum(7), r) : r \in RawReasons }

SampleA == JsonDict("A", RawNum(16), RawNum(6), [k |-> "list", items |-> <<StrItem("r1")>>])
SampleB == JsonDict("B", RawNum(6), RawNum(16), [k |-> "list", items |-> <<StrItem("r2")>>])
\* a winner in the wrong case, and an object without any field
SampleLower == JsonDict("a", RawNum(16), RawNum(6), [k |-> "list", items |-> <<StrItem("r1")>>])
EmptyDict == [kind |-> "dict", f |-> NoFields]

\* a reply text: the body and how it is wrapped.  fence = "none", "json"
\* (```json ... ```), "plain" (``` ... ```), "open" (```json with no closing
\* fence)
Text(fence, body) == [fence |-> fence, body |-> body]

Replies ==
    { Text("none", b) : b \in DictBodies \cup {JsonOther("garbage"), JsonOther("null"),
                                              JsonOther("scalar"), EmptyDict} }
    \cup { Text(fc, b) : fc \in {"json", "plain", "open"}, b \in {SampleA} }

\* the replies the judge gives inside a benchmark run
EngineReplies ==
    { Text("none", SampleA), Text("json", SampleB), Text("none", SampleLower),
      Text("none", JsonOther("garbage")) }

(***************************************************************************)
(* evaluator.py: pure functions                                            *)
(***************************************************************************)
None == [kind |-> "None", f |-> NoFields]

\* mutant: only JSON objects are accepted
JsonLoads_objects(body) ==
    IF body.kind # "dict" THEN [kind |-> "None", f |-> NoFields] ELSE body

\* json.loads: the parsed value, None standing for the exception as well as
\* for JSON null
JsonLoads(body) ==
    IF body.kind \in {"garbage", "null"} THEN None ELSE body

\* safe_json_loads: a closed fence is stripped, an open one is left in the
\* text, which json.loads then rejects
safe_json_loads(s) ==
    IF s.fence \in {"json", "plain"} THEN JsonLoads(s.body)
    ELSE IF s.fence = "open" THEN None
    ELSE JsonLoads(s.body)

Fin(n) == [k |-> "fin", n |-> n]
NaN == [k |-> "nan", n |-> 0]

\* float(x) inside clamp_score's try: "err" is the exception
ToFloat(x) ==
    CASE x.k \in {"num", "numstr"} -> Fin(x.n)
      [] x.k = "nan" -> NaN
      [] x.k = "inf" -> [k |-> "inf", n |-> 0]
      [] x.k = "ninf" -> [k |-> "ninf", n |-> 0]
      [] OTHER -> [k |-> "err", n |-> 0]

\* x < 0 and x > 10 on floats: every comparison with NaN is false
FloatLtZero(x) == x.k = "ninf" \/ (x.k = "fin" /\ x.n < 0)
FloatGtMax(x) == x.k = "inf" \/ (x.k = "fin" /\ x.n > 2 * ScoreMax)

clamp_score(raw) ==
    LET x0 == ToFloat(raw)
        x1 == IF x0.k = "err" THEN Fin(0) ELSE x0
        x2 == IF FloatLtZero(x1) THEN Fin(0) ELSE x1
        x3 == IF FloatGtMax(x2) THEN Fin(2 * ScoreMax) ELSE x2
    IN  x3

\* obj.get(key, default)
Get(v, default) == IF v = MISSING THEN default ELSE v
GetScore(v) == IF v.k = "missing" THEN RawNum(0) ELSE v

Take(s, n) == IF Len(s) <= n THEN s ELSE SubSeq(s, 1, n)

\* mutant: the winner is passed on as the judge wrote it
NormalizeWinner_raw(obj) == Get(obj.f.winner, "tie")

NormalizeWinner(obj) ==
    LET winner == Get(obj.f.winner, "tie")
    IN  IF winner \notin {"A", "B", "tie"} THEN "tie" ELSE winner

\* str(r)
Str(item) == item.v

\* reasons = obj.get("reasons", []); a non-list becomes [str(reasons)];
\* [str(r) for r in reasons][:8]
NormalizeReasons(obj) ==
    LET r == obj.f.reasons
        l == IF r.k = "missing" THEN <<>> ELSE r.items
    IN  Take([i \in 1..Len(l) |-> Str(l[i])], ReasonCap)

normalize_judge_result(obj) ==
    IF obj.kind # "dict"
    THEN [winner |-> "tie", score_A |-> Fin(0), score_B |-> Fin(0),
          reasons |-> <<"Invalid judge output (not a dict).">>]
    ELSE [winner |-> NormalizeWinner(obj),
          score_A |-> clamp_score(GetScore(obj.f.score_A)),
          score_B |-> clamp_score(GetScore(obj.f.score_B)),
          reasons |-> NormalizeReasons(obj)]

\* mutant: the swapped verdict is not mapped back to the original labels
RemapSwapped_identity(w2) == w2

RemapSwapped(w2) ==
    IF w2 = "A" THEN "B" ELSE IF w2 = "B" THEN "A" ELSE "tie"

\* mutant: the direct verdict wins whatever the swapped one says
swap_mitigated_winner_first(jab, jba) == jab.winner

swap_mitigated_winner(jab, jba) ==
    LET w1 == jab.winner
        w2_mapped == RemapSwapped(jba.winner)
    IN  IF w1 = w2_mapped THEN w1 ELSE "tie"

\* (x + y) / 2 then round(_, 1): halves in, tenths out.  The sum s of two
\* halves is the average in quarters; a quarter is exact in binary, so
\* round() rounds the ties .25 and .75 to the even tenth (.2 and .8).
RoundQuartersToTenths(s) ==
    LET whole == s \div 4
        r == s % 4
    IN  10 * whole + (CASE r = 0 -> 0 [] r = 1 -> 2 [] r = 2 -> 5 [] OTHER -> 8)

AvgRound(x, y) ==
    IF x.k = "nan" \/ y.k = "nan" THEN NaN ELSE Fin(RoundQuartersToTenths(x.n + y.n))

\* mutant: duplicates are kept
Dedupe_keep(l, seen) == l

RECURSIVE Dedupe(_, _)
\* list(dict.fromkeys(l)): first occurrences, in order
Dedupe(l, seen) ==
    IF l = <<>> THEN <<>>
    ELSE IF Head(l) \in seen THEN Dedupe(Tail(l), seen)
    ELSE <<Head(l)>> \o Dedupe(Tail(l), seen \cup {Head(l)})

\* mutant: the scores of the direct ordering alone
Reconcile_direct(jab, jba) ==
    [winner |-> swap_mitigated_winner(jab, jba),
     score_A |-> AvgRound(jab.score_A, jab.score_A),
     score_B |-> AvgRound(jab.score_B, jab.score_B),
     reasons |-> Take(Dedupe(jab.reasons \o jba.reasons, {}), FinalReasonCap),
     raw_ab |-> jab,
     raw_ba |-> jba]

\* mutant: the swapped scores are averaged under their swapped labels
Reconcile_noswap(jab, jba) ==
    [winner |-> swap_mitigated_winner(jab, jba),
     score_A |-> AvgRound(jab.score_A, jba.score_A),
     score_B |-> AvgRound(jab.score_B, jba.score_B),
     reasons |-> Take(Dedupe(jab.reasons \o jba.reasons, {}), FinalReasonCap),
     raw_ab |-> jab,
     raw_ba |-> jba]

\* evaluate_pair after both _judge_once calls have returned
Reconcile(jab, jba) ==
    [winner |-> swap_mitigated_winner(jab, jba),
     score_A |-> AvgRound(jab.score_A, jba.score_B),
     score_B |-> AvgRound(jab.score_B, jba.score_A),
     reasons |-> Take(Dedupe(jab.reasons \o jba.reasons, {}), FinalReasonCap),
     raw_ab |-> jab,
     raw_ba |-> jba]

\* f"Judge output not parseable as JSON. Last: {last_text[:200]}", for the
\* texts json.loads rejects
FallbackReason(text) ==
    CASE text.fence = "open" -> "Judge output not parseable as JSON. Last: <open fence>"
      [] text.body.kind = "null" -> "Judge output not parseable as JSON. Last: null"
      [] OTHER -> "Judge output not parseable as JSON. Last: garbage"

\* mutant: the fallback names the response shown first
FallbackVerdict_first(text) ==
    [winner |-> "A", score_A |-> Fin(0), score_B |-> Fin(0),
     reasons |-> <<FallbackReason(text)>>]

\* the value _judge_once returns when every attempt failed
FallbackVerdict(text) ==
    [winner |-> "tie", score_A |-> Fin(0), score_B |-> Fin(0),
     reasons |-> <<FallbackReason(text)>>]

NoVerdict == [winner |-> "none", score_A |-> Fin(0), score_B |-> Fin(0), reasons |-> <<>>]
NoResult == [winner |-> "none", score_A |-> Fin(0), score_B |-> Fin(0), reasons |-> <<>>,
             raw_ab |-> NoVerdict, raw_ba |-> NoVerdict]

(***************************************************************************)
(* evaluator.py: JudgeEvaluator                                            *)
(***************************************************************************)
NoText == Text("none", None)
\* no judge model fixed: the gateway replies what it will
NoOracle == [p \in {} |-> <<>>]
NoReplies == [ab |-> NoText, ba |-> NoText]

\* JUDGE_PROMPT_TEMPLATE.format(...): first is shown as Response A, second
\* as Response B
Prompt(first, second) ==
    [role |-> "user", kind |-> "prompt", first |-> first, second |-> second, text |-> NoText]
\* mutant: the assistant message does not carry the reply
AssistantMsg_blank(text) ==
    [role |-> "assistant", kind |-> "reply", first |-> "", second |-> "",
     text |-> Text("none", None)]

AssistantMsg(text) ==
    [role |-> "assistant", kind |-> "reply", first |-> "", second |-> "", text |-> text]
NudgeMsg ==
    [role |-> "user", kind |-> "nudge", first |-> "", second |-> "", text |-> NoText]

\* evaluate_pair up to the first gateway call of _judge_once(conv, a, b)
BeginEvaluatePair(ra, rb) ==
    /\ jpc' = "ab"
    /\ attempt' = 0
    /\ messages' = <<Prompt(ra, rb)>>
    /\ last_text' = NoText
    /\ j_ab' = NoVerdict
    /\ j_ba' = NoVerdict
    /\ verdict' = NoResult
    /\ callsAB' = 0
    /\ callsBA' = 0
    /\ unparsedAB' = 0
    /\ unparsedBA' = 0
    /\ reply' = NoReplies

\* mutant: evaluate_pair returns after the direct ordering
JudgeReturn_early(jres) ==
    /\ j_ab' = jres
    /\ verdict' = Reconcile(jres, jres)
    /\ jpc' = "done"
    /\ attempt' = 0
    /\ messages' = <<>>
    /\ last_text' = NoText
    /\ UNCHANGED j_ba

\* mutant: a verdict reached after a retry of the swapped ordering is
\* turned into a tie
JudgeReturn_retrybias(jres) ==
    IF jpc = "ab"
    THEN /\ j_ab' = jres
         /\ jpc' = "ba"
         /\ attempt' = 0
         /\ messages' = <<Prompt(responses.b, responses.a)>>
         /\ last_text' = NoText
         /\ UNCHANGED <<j_ba, verdict>>
    ELSE /\ j_ba' = jres
         /\ verdict' = IF attempt > 0
                        THEN [Reconcile(j_ab, jres) EXCEPT !.winner = "tie"]
                        ELSE Reconcile(j_ab, jres)
         /\ jpc' = "done"
         /\ attempt' = 0
         /\ messages' = <<>>
         /\ last_text' = NoText
         /\ UNCHANGED j_ab

\* _judge_once returns jres: the direct ordering hands over to the swapped
\* one, the swapped ordering to the rest of evaluate_pair
JudgeReturn(jres) ==
    IF jpc = "ab"
    THEN /\ j_ab' = jres
         /\ jpc' = "ba"
         /\ attempt' = 0
         /\ messages' = <<Prompt(responses.b, responses.a)>>
         /\ last_text' = NoText
         /\ UNCHANGED <<j_ba, verdict>>
    ELSE /\ j_ba' = jres
         /\ verdict' = Reconcile(j_ab, jres)
         /\ jpc' = "done"
         /\ attempt' = 0
         /\ messages' = <<>>
         /\ last_text' = NoText
         /\ UNCHANGED j_ab

\* for attempt in range(self.max_retries + 1): is there an iteration after
\* the one numbered att?
\* mutants: one attempt too many; a loop without a counter
RetriesLeft_offbyone(att) == att <= max_retries
RetriesLeft_always(att) == TRUE

RetriesLeft(att) == att < max_retries

\* bookkeeping of the gateway calls; failed tells whether the reply of this
\* call was unparseable
CountJudgeCall(failed) ==
    /\ callsAB' = IF jpc = "ab" THEN callsAB + 1 ELSE callsAB
    /\ callsBA' = IF jpc = "ba" THEN callsBA + 1 ELSE callsBA
    /\ unparsedAB' = IF jpc = "ab" /\ failed THEN unparsedAB + 1 ELSE unparsedAB
    /\ unparsedBA' = IF jpc = "ba" /\ failed THEN unparsedBA + 1 ELSE unparsedBA
    /\ judgeCalled' = IF pc = "judge" THEN TRUE ELSE judgeCalled

\* one iteration of the loop of _judge_once: the gateway returns text
JudgeCall(text) ==
    /\ jpc \in {"ab", "ba"}
    /\ CountJudgeCall(safe_json_loads(text) = None)
    /\ LET obj == safe_json_loads(text)
       IN  IF obj # None
           THEN /\ JudgeReturn(normalize_judge_result(obj))
                /\ reply' = [reply EXCEPT ![jpc] = text]
           ELSE IF RetriesLeft(attempt)
                THEN /\ attempt' = attempt + 1
                     /\ messages' = messages \o <<AssistantMsg(text), NudgeMsg>>
                     /\ last_text' = text
                     /\ UNCHANGED <<jpc, j_ab, j_ba, verdict, reply>>
                ELSE /\ JudgeReturn(FallbackVerdict(text))
                     /\ reply' = [reply EXCEPT ![jpc] = text]
    /\ UNCHANGED <<config, dataset_file, dataset, pc, idx, capPos, responses, model_stats,
                   category_stats, results, summary, error, modelCalls>>
    /\ UNCHANGED mvars

\* provider.chat_completion raises inside _judge_once: nothing catches it
\* in evaluator.py nor in run()
JudgeGatewayError ==
    /\ jpc \in {"ab", "ba"}
    /\ CountJudgeCall(FALSE)
    /\ jpc' = "raised"
    /\ pc' = IF pc = "judge" THEN "failed" ELSE pc
    /\ error' = IF pc = "judge" THEN "judge_gateway" ELSE error
    /\ UNCHANGED <<attempt, messages, last_text, j_ab, j_ba, verdict, reply>>
    /\ UNCHANGED <<config, dataset_file, dataset, idx, capPos, responses, model_stats,
                   category_stats, results, summary, modelCalls>>
    /\ UNCHANGED mvars

(***************************************************************************)
(* config.py, providers, capabilities: what setup() reads                  *)
(***************************************************************************)
ModelConfig(provider, model, alias) == [provider |-> provider, model |-> model, alias |-> alias]

\* ModelConfig.display_name: self.alias or f"{provider}/{model}".  The
\* f-string is kept as the pair it is built from.
display_name(m) ==
    IF m.alias # "" THEN <<"alias", m.alias>> ELSE <<m.provider, m.model>>

\* get_provider: provider_map has openai, gemini and anthropic; ollama and
\* custom are ProviderType members without an adapter
ProviderSupported(p) == p \in {"openai", "gemini", "anthropic"}

\* get_capability: capability_map.get(name.lower())
CapabilityKnown(name) == name \in {"chat_completion", "chat"}

\* ChatCompletionCapability.validate_test_case: "turns" is present, a list,
\* and not empty.  Nothing in the package calls it.
validate_test_case(tc) == tc.turns.k = "list" /\ Len(tc.turns.items) # 0

Gpt == ModelConfig("openai", "gpt-4o", "")
Flash == ModelConfig("gemini", "flash", "")
Llama == ModelConfig("ollama", "llama3", "")

ModelLists ==
    { <<Gpt, Flash>>, <<Gpt, Gpt>>, <<Gpt>>, <<Gpt, Flash, Gpt>>, <<Gpt, Llama>> }

CapabilityLists ==
    { <<"chat_completion">>, <<"chat_completion", "chat">>, <<"vision">> }

NoneItems == [k |-> "none", n |-> 0]
IntItems(n) == [k |-> "int", n |-> n]
MaxItemsChoices == {NoneItems, IntItems(0), IntItems(1)}

Configs ==
    [models : ModelLists, capabilities : CapabilityLists,
     judge_provider : {"openai", "custom"}, max_items : MaxItemsChoices]

\* the "turns" field of a test case: a list of user messages, or absent
SomeTurns == [k |-> "list", items |-> <<"hi">>]
EmptyTurns == [k |-> "list", items |-> <<>>]
NoTurns == [k |-> "missing", items |-> <<>>]

\* a line of the JSONL file: "id" is the line's position, "category" and
\* "turns" may be absent, "turns" may be empty
Categories == {"allergy", MISSING}
CaseShapes ==
    { [category |-> c, turns |-> SomeTurns] : c \in Categories }
    \cup { [category |-> "allergy", turns |-> t] : t \in {EmptyTurns, NoTurns} }
RECURSIVE Datasets(_)
Datasets(n) ==
    IF n = 0 THEN {<<>>}
    ELSE { Append(d, [id |-> n, category |-> sh.category, turns |-> sh.turns]) :
               d \in Datasets(n - 1), sh \in CaseShapes }
\* the files: at most one line differs from the usual shape (a category and
\* a turn)
Usual(tc) == tc.category = "allergy" /\ tc.turns = SomeTurns
DatasetFiles ==
    { d \in UNION { Datasets(n) : n \in 0..MaxPairs } :
          Cardinality({ i \in 1..Len(d) : ~Usual(d[i]) }) <= 1 }

(***************************************************************************)
(* engine.py: helpers of run()                                             *)
(***************************************************************************)
EmptyMap == [x \in {} |-> 0]

Range(s) == { s[i] : i \in 1..Len(s) }

\* self.capabilities: a dict keyed by capability name, in insertion order
CapKeys(caps) == Dedupe(caps, {})

\* mutant: the capability names are not looked up
SetupFails_nocaps(cfg) ==
    \/ \E i \in 1..Len(cfg.models) : ~ProviderSupported(cfg.models[i].provider)
    \/ ~ProviderSupported(cfg.judge_provider)

\* setup() raises ValueError
SetupFails(cfg) ==
    \/ \E i \in 1..Len(cfg.models) : ~ProviderSupported(cfg.models[i].provider)
    \/ \E i \in 1..Len(cfg.capabilities) : ~CapabilityKnown(cfg.capabilities[i])
    \/ ~ProviderSupported(cfg.judge_provider)

\* if self.config.settings.max_items: dataset = dataset[:max_items]
CutDataset(ds, max_items) ==
    IF max_items.k = "int" /\ max_items.n # 0 THEN Take(ds, max_items.n) ELSE ds

ZeroStats == [wins |-> 0, ties |-> 0, losses |-> 0, scores |-> <<>>]

\* the dict comprehension building model_stats
InitModelStats(cfg) ==
    [name \in { display_name(m) : m \in Range(cfg.models) } |->
        [cap \in Range(cfg.capabilities) |-> ZeroStats]]

ZeroCategory(a, b) == [name \in {a, b} |-> [wins |-> 0, ties |-> 0]]

\* model_stats[name][cap][field] += 1
BumpStat(ms, name, cap, field) ==
    [ms EXCEPT ![name][cap][field] = @ + 1]
\* category_stats[category][name][field] += 1
BumpCategory(cs, category, name, field) ==
    [cs EXCEPT ![category][name][field] = @ + 1]
\* model_stats[name][cap]["scores"].append(score)
AppendScore(ms, name, cap, score) ==
    [ms EXCEPT ![name][cap].scores = Append(@, score)]

\* mutant: a win is not booked as a loss of the other model
UpdateModelCounters_nolosses(ms, winner, a, b, cap) ==
    IF winner = "A" THEN BumpStat(ms, a, cap, "wins")
    ELSE IF winner = "B" THEN BumpStat(ms, b, cap, "wins")
    ELSE BumpStat(BumpStat(ms, a, cap, "ties"), b, cap, "ties")

\* lines 165-180: the statements run one after the other, so that two models
\* with one display name hit the same entry twice
UpdateModelCounters(ms, winner, a, b, cap) ==
    IF winner = "A" THEN BumpStat(BumpStat(ms, a, cap, "wins"), b, cap, "losses")
    ELSE IF winner = "B" THEN BumpStat(BumpStat(ms, b, cap, "wins"), a, cap, "losses")
    ELSE BumpStat(BumpStat(ms, a, cap, "ties"), b, cap, "ties")

UpdateCategoryCounters(cs, winner, a, b, category) ==
    IF winner = "A" THEN BumpCategory(cs, category, a, "wins")
    ELSE IF winner = "B" THEN BumpCategory(cs, category, b, "wins")
    ELSE BumpCategory(BumpCategory(cs, category, a, "ties"), category, b, "ties")

\* lines 182-183
UpdateScores(ms, jr, a, b, cap) ==
    AppendScore(AppendScore(ms, a, cap, jr.score_A), b, cap, jr.score_B)

(***************************************************************************)
(* engine.py: _build_summary                                               *)
(***************************************************************************)
TieName == <<"tie">>
Absent == <<>>

RECURSIVE SumScores(_)
SumScores(scores) ==
    IF scores = <<>> THEN 0 ELSE Head(scores).n + SumScores(Tail(scores))

HasNaN(scores) == \E i \in 1..Len(scores) : scores[i].k = "nan"

\* round(num / den, 0) for num >= 0, den > 0: ties go to the even integer
RoundHalfEven(num, den) ==
    LET q == num \div den
        r == num % den
    IN  IF 2 * r < den THEN q
        ELSE IF 2 * r > den THEN q + 1
        ELSE IF q % 2 = 0 THEN q ELSE q + 1

\* mutant: the sum is not divided by the number of scores
MeanScore_sum(scores) ==
    IF scores = <<>> THEN Fin(0)
    ELSE IF HasNaN(scores) THEN NaN
    ELSE Fin(10 * SumScores(scores))

\* round(sum(scores) / len(scores), 2) if scores else 0: tenths in,
\* hundredths out
MeanScore(scores) ==
    IF scores = <<>> THEN Fin(0)
    ELSE IF HasNaN(scores) THEN NaN
    ELSE Fin(RoundHalfEven(10 * SumScores(scores), Len(scores)))

RECURSIVE SumField(_, _, _)
\* model_summary["total_<field>"] += stats[field], over the capabilities
SumField(cap_stats, caps, field) ==
    IF caps = <<>> THEN 0
    ELSE cap_stats[Head(caps)][field] + SumField(cap_stats, Tail(caps), field)

RECURSIVE AllScores(_, _)
\* all_scores.extend(stats["scores"]), over the capabilities
AllScores(cap_stats, caps) ==
    IF caps = <<>> THEN <<>>
    ELSE cap_stats[Head(caps)].scores \o AllScores(cap_stats, Tail(caps))

ModelSummary(cap_stats, caps) ==
    [total_wins |-> SumField(cap_stats, caps, "wins"),
     total_ties |-> SumField(cap_stats, caps, "ties"),
     total_losses |-> SumField(cap_stats, caps, "losses"),
     avg_score |-> MeanScore(AllScores(cap_stats, caps)),
     by_capability |-> [c \in Range(caps) |->
                          [wins |-> cap_stats[c].wins, ties |-> cap_stats[c].ties,
                           losses |-> cap_stats[c].losses,
                           avg_score |-> MeanScore(cap_stats[c].scores)]]]

\* mutant: >= in the first comparison, so equal totals name the first model
OverallWinner_ge(models, model_names) ==
    IF Len(model_names) = 2
    THEN LET m1 == model_names[1]
             m2 == model_names[2]
         IN  IF models[m1].total_wins >= models[m2].total_wins THEN m1
             ELSE IF models[m2].total_wins > models[m1].total_wins THEN m2
             ELSE <<"tie">>
    ELSE <<>>

\* lines 298-307: model_names are the keys of summary["models"], in the
\* order of config.models
OverallWinner(models, model_names) ==
    IF Len(model_names) = 2
    THEN LET m1 == model_names[1]
             m2 == model_names[2]
         IN  IF models[m1].total_wins > models[m2].total_wins THEN m1
             ELSE IF models[m2].total_wins > models[m1].total_wins THEN m2
             ELSE TieName
    ELSE Absent

build_summary(ms, cs, total_cases, names, caps) ==
    LET models == [name \in DOMAIN ms |-> ModelSummary(ms[name], caps)]
    IN  [built |-> TRUE,
         total_test_cases |-> total_cases,
         models |-> models,
         by_category |-> cs,
         overall_winner |-> OverallWinner(models, names)]

NoSummary ==
    [built |-> FALSE, total_test_cases |-> 0, models |-> EmptyMap,
     by_category |-> EmptyMap, overall_winner |-> Absent]

\* summary.get("overall_winner", "tie"): how _print_summary, the reporter and
\* the CLI read it
ReadOverallWinner(sm) ==
    IF sm.overall_winner = Absent THEN TieName ELSE sm.overall_winner

(***************************************************************************)
(* engine.py: run()                                                        *)
(***************************************************************************)
ModelA == display_name(config.models[1])
ModelB == display_name(config.models[2])
ModelNames == Dedupe([i \in 1..Len(config.models) |-> display_name(config.models[i])], {})
ActiveCaps == CapKeys(config.capabilities)
CaseCategory(tc) == Get(tc.category, "unknown")

JudgeIdle ==
    /\ jpc' = "idle"
    /\ attempt' = 0
    /\ messages' = <<>>
    /\ last_text' = NoText
    /\ j_ab' = NoVerdict
    /\ j_ba' = NoVerdict
    /\ verdict' = NoResult
    /\ callsAB' = 0
    /\ callsBA' = 0
    /\ unparsedAB' = 0
    /\ unparsedBA' = 0
    /\ reply' = NoReplies

NoResponses == [a |-> "", b |-> ""]

\* lines 97-126: setup(), the dataset, the statistics maps, the model count
Setup ==
    /\ pc = "start"
    /\ IF SetupFails(config)
       THEN /\ pc' = "failed"
            /\ error' = "config"
            /\ UNCHANGED <<dataset, model_stats, category_stats, idx>>
       ELSE /\ dataset' = CutDataset(dataset_file, config.max_items)
            /\ model_stats' = InitModelStats(config)
            /\ category_stats' = EmptyMap
            /\ IF Len(config.models) # 2
               THEN /\ pc' = "failed"
                    /\ error' = "config"
                    /\ UNCHANGED idx
               ELSE /\ pc' = IF dataset' = <<>> THEN "summary" ELSE "case"
                    /\ idx' = 1
                    /\ UNCHANGED error
    /\ UNCHANGED <<config, dataset_file, capPos, responses, results, summary,
                   modelCalls, judgeCalled>>
    /\ UNCHANGED jvars
    /\ UNCHANGED mvars

\* lines 138-146: the head of the loop over the dataset
BeginCase ==
    /\ pc = "case"
    /\ LET category == CaseCategory(dataset[idx])
       IN  category_stats' =
               IF category \in DOMAIN category_stats THEN category_stats
               ELSE (category :> ZeroCategory(ModelA, ModelB)) @@ category_stats
    /\ capPos' = 1
    /\ pc' = "genA"
    /\ UNCHANGED <<config, dataset_file, dataset, idx, responses, model_stats,
                   results, summary, error, modelCalls, judgeCalled>>
    /\ UNCHANGED jvars
    /\ UNCHANGED mvars

\* _generate_response for model A; content is what the gateway returns
GenerateA(content) ==
    /\ pc = "genA"
    /\ modelCalls' = modelCalls + 1
    /\ responses' = [a |-> content, b |-> ""]
    /\ pc' = "genB"
    /\ UNCHANGED <<config, dataset_file, dataset, idx, capPos, model_stats,
                   category_stats, results, summary, error, judgeCalled>>
    /\ UNCHANGED jvars
    /\ UNCHANGED mvars

\* _generate_response for model B, then evaluate_pair up to its first call
GenerateB(content) ==
    /\ pc = "genB"
    /\ modelCalls' = modelCalls + 1
    /\ responses' = [responses EXCEPT !.b = content]
    /\ pc' = "judge"
    /\ BeginEvaluatePair(responses.a, content)
    /\ UNCHANGED <<config, dataset_file, dataset, idx, capPos, model_stats,
                   category_stats, results, summary, error, judgeCalled>>
    /\ UNCHANGED mvars

\* mutant: the error is caught per test case and the loop goes on
ModelGatewayError_continue ==
    /\ pc \in {"genA", "genB"}
    /\ modelCalls' = modelCalls + 1
    /\ error' = "model_gateway"
    /\ IF idx < Len(dataset)
       THEN idx' = idx + 1 /\ pc' = "case"
       ELSE idx' = idx /\ pc' = "summary"
    /\ responses' = [a |-> "", b |-> ""]
    /\ UNCHANGED <<config, dataset_file, dataset, capPos, model_stats,
                   category_stats, results, summary, judgeCalled>>
    /\ UNCHANGED jvars
    /\ UNCHANGED mvars

\* provider.chat_completion raises in _generate_response: the exception
\* leaves run()
ModelGatewayError ==
    /\ pc \in {"genA", "genB"}
    /\ modelCalls' = modelCalls + 1
    /\ pc' = "failed"
    /\ error' = "model_gateway"
    /\ UNCHANGED <<config, dataset_file, dataset, idx, capPos, responses, model_stats,
                   category_stats, results, summary, judgeCalled>>
    /\ UNCHANGED jvars
    /\ UNCHANGED mvars

\* mutant: the newest result goes to the front of the log
AppendResult_front(log, result) == <<result>> \o log

\* self.results.append(result)
AppendResult(log, result) == Append(log, result)

\* lines 186-207
MakeResult(tc, cap, jr, resp, a, b) ==
    [test_id |-> tc.id,
     category |-> CaseCategory(tc),
     capability |-> cap,
     responses |-> (b :> [response |-> resp.b, score |-> jr.score_B])
                   @@ (a :> [response |-> resp.a, score |-> jr.score_A]),
     winner |-> jr.winner,
     judge_reasons |-> jr.reasons]

\* lines 165-214: evaluate_pair has returned; statistics, the result log,
\* and the step to the next capability or test case
RecordResult ==
    /\ pc = "judge"
    /\ jpc = "done"
    /\ LET cap == ActiveCaps[capPos]
           tc == dataset[idx]
           ms1 == UpdateModelCounters(model_stats, verdict.winner, ModelA, ModelB, cap)
       IN  /\ model_stats' = UpdateScores(ms1, verdict, ModelA, ModelB, cap)
           /\ category_stats' = UpdateCategoryCounters(category_stats, verdict.winner,
                                                       ModelA, ModelB, CaseCategory(tc))
           /\ results' = AppendResult(results, MakeResult(tc, cap, verdict, responses,
                                                          ModelA, ModelB))
    /\ IF capPos < Len(ActiveCaps)
       THEN /\ capPos' = capPos + 1
            /\ pc' = "genA"
            /\ UNCHANGED idx
       ELSE IF idx < Len(dataset)
            THEN /\ idx' = idx + 1
                 /\ pc' = "case"
                 /\ UNCHANGED capPos
            ELSE /\ pc' = "summary"
                 /\ UNCHANGED <<idx, capPos>>
    /\ responses' = NoResponses
    /\ JudgeIdle
    /\ UNCHANGED <<config, dataset_file, dataset, summary, error, modelCalls, judgeCalled>>
    /\ UNCHANGED mvars

\* lines 216-224
Finish ==
    /\ pc = "summary"
    /\ summary' = build_summary(model_stats, category_stats, Len(dataset),
                                ModelNames, ActiveCaps)
    /\ pc' = "done"
    /\ UNCHANGED <<config, dataset_file, dataset, idx, capPos, responses, model_stats,
                   category_stats, results, error, modelCalls, judgeCalled>>
    /\ UNCHANGED jvars
    /\ UNCHANGED mvars

(***************************************************************************)
(* A benchmark run                                                         *)
(***************************************************************************)
Init ==
    /\ config \in Configs
    /\ dataset_file \in DatasetFiles
    /\ Len(dataset_file) * Len(CapKeys(config.capabilities)) <= MaxPairs
    /\ dataset = <<>>
    /\ pc = "start"
    /\ idx = 0
    /\ capPos = 0
    /\ responses = NoResponses
    /\ model_stats = EmptyMap
    /\ category_stats = EmptyMap
    /\ results = <<>>
    /\ summary = NoSummary
    /\ error = "none"
    /\ modelCalls = 0
    /\ judgeCalled = FALSE
    /\ jpc = "idle"
    /\ attempt = 0
    /\ messages = <<>>
    /\ last_text = NoText
    /\ j_ab = NoVerdict
    /\ j_ba = NoVerdict
    /\ verdict = NoResult
    /\ callsAB = 0
    /\ callsBA = 0
    /\ unparsedAB = 0
    /\ unparsedBA = 0
    /\ reply = NoReplies
    /\ oracle = NoOracle
    /\ earlier = NoResult

Next ==
    \/ Setup
    \/ BeginCase
    \/ GenerateA("x")
    \/ GenerateB("y")
    \/ ModelGatewayError
    \/ \E text \in EngineReplies : JudgeCall(text)
    \/ JudgeGatewayError
    \/ RecordResult
    \/ Finish

Spec == Init /\ [][Next]_vars

(***************************************************************************)
(* evaluate_pair on its own, on any two responses and any judge replies    *)
(***************************************************************************)
ResponseTexts == {"x", "y"}

\* a caller invokes evaluator.evaluate_pair(conversation, ra, rb)
CallEvaluatePair(ra, rb) ==
    /\ pc = "standalone"
    /\ jpc \in {"idle", "done", "raised"}
    /\ responses' = [a |-> ra, b |-> rb]
    /\ BeginEvaluatePair(ra, rb)
    /\ UNCHANGED <<config, dataset_file, dataset, pc, idx, capPos, model_stats,
                   category_stats, results, summary, error, modelCalls, judgeCalled>>
    /\ UNCHANGED mvars

InitJudge ==
    /\ config = [models |-> <<Gpt, Flash>>, capabilities |-> <<"chat_completion">>,
                 judge_provider |-> "openai", max_items |-> NoneItems]
    /\ dataset_file = <<>>
    /\ dataset = <<>>
    /\ pc = "standalone"
    /\ idx = 0
    /\ capPos = 0
    /\ responses = NoResponses
    /\ model_stats = EmptyMap
    /\ category_stats = EmptyMap
    /\ results = <<>>
    /\ summary = NoSummary
    /\ error = "none"
    /\ modelCalls = 0
    /\ judgeCalled = FALSE
    /\ jpc = "idle"
    /\ attempt = 0
    /\ messages = <<>>
    /\ last_text = NoText
    /\ j_ab = NoVerdict
    /\ j_ba = NoVerdict
    /\ verdict = NoResult
    /\ callsAB = 0
    /\ callsBA = 0
    /\ unparsedAB = 0
    /\ unparsedBA = 0
    /\ reply = NoReplies
    /\ oracle = NoOracle
    /\ earlier = NoResult

NextJudge ==
    \/ \E ra, rb \in ResponseTexts : CallEvaluatePair(ra, rb)
    \/ \E text \in Replies : JudgeCall(text)
    \/ JudgeGatewayError

SpecJudge == InitJudge /\ [][NextJudge]_vars

(***************************************************************************)
(* Properties of the judge protocol, checked under SpecJudge               *)
(***************************************************************************)
Winners == {"A", "B", "tie"}

\* the direct winner and the swapped winner name the same original side
SameSide(w1, w2) ==
    \/ w1 = "A" /\ w2 = "B"
    \/ w1 = "B" /\ w2 = "A"
    \/ w1 = "tie" /\ w2 = "tie"

\* C1: when the direct-order winner differs from the swapped-order winner
\* mapped back to the original labels (A<->B, tie->tie), the reconciled
\* winner is "tie", never A or B.
C1_DisagreementIsTie ==
    (jpc = "done" /\ ~SameSide(j_ab.winner, j_ba.winner)) => verdict.winner = "tie"

\* both orderings prefer the response shown first: two non-tie verdicts, a tie
C1_Witness ==
    jpc = "done" /\ j_ab.winner = "A" /\ j_ba.winner = "A" /\ verdict.winner = "tie"

\* C2: the swapped winner's "A" means original B, its "B" original A, "tie"
\* stays "tie"; when the direct winner equals the remapped swapped winner,
\* the reconciled winner is that winner.
C2_AgreementIsWinner ==
    jpc = "done" =>
        /\ (j_ab.winner = "A" /\ j_ba.winner = "B") => verdict.winner = "A"
        /\ (j_ab.winner = "B" /\ j_ba.winner = "A") => verdict.winner = "B"
        /\ (j_ab.winner = "tie" /\ j_ba.winner = "tie") => verdict.winner = "tie"

C2_Witness ==
    jpc = "done" /\ j_ab.winner = "A" /\ j_ba.winner = "B" /\ verdict.winner = "A"

\* a float within [0,10], in halves and in tenths
InRangeHalves(x) == x.k = "fin" /\ 0 <= x.n /\ x.n <= 20
InRangeTenths(x) == x.k = "fin" /\ 0 <= x.n /\ x.n <= 100

\* C3: whatever the raw score fields of the judge payload hold, score_A and
\* score_B of each normalized verdict and of the verdict evaluate_pair
\* returns lie within [0,10].
C3_ScoresInRange ==
    /\ jpc \in {"ba", "done"} =>
           InRangeHalves(j_ab.score_A) /\ InRangeHalves(j_ab.score_B)
    /\ jpc = "done" =>
           /\ InRangeHalves(j_ba.score_A) /\ InRangeHalves(j_ba.score_B)
           /\ InRangeTenths(verdict.score_A) /\ InRangeTenths(verdict.score_B)

IsFallback(j) ==
    /\ j.winner = "tie"
    /\ j.score_A = Fin(0)
    /\ j.score_B = Fin(0)
    /\ Len(j.reasons) = 1
    /\ j.reasons[1] \in { FallbackReason(t) : t \in Replies }

\* C4: when no reply of an ordering was parseable, _judge_once issued
\* exactly 3 gateway calls for it and returned winner=tie, score_A=0,
\* score_B=0 with the reason describing the failure; no ordering ever gets
\* a fourth call.
C4_ThreeCallsThenFallback ==
    /\ callsAB <= 3
    /\ callsBA <= 3
    /\ (jpc \in {"ba", "done"} /\ unparsedAB = callsAB) =>
           (callsAB = 3 /\ IsFallback(j_ab))
    /\ (jpc = "done" /\ unparsedBA = callsBA) =>
           (callsBA = 3 /\ IsFallback(j_ba))

\* the direct ordering parsed at once, the swapped one never did
C4_Witness ==
    /\ jpc = "done"
    /\ callsAB = 1
    /\ unparsedAB = 0
    /\ callsBA = 3
    /\ unparsedBA = 3
    /\ IsFallback(j_ba)
    /\ ~IsFallback(j_ab)

IsFloat(x) == x.k \in {"fin", "nan"}

WellFormedVerdict(v) ==
    /\ v.winner \in Winners
    /\ IsFloat(v.score_A)
    /\ IsFloat(v.score_B)
    /\ v.reasons \in Seq({ v.reasons[i] : i \in 1..Len(v.reasons) })
    /\ v.raw_ab.winner \in Winners
    /\ v.raw_ba.winner \in Winners

C5_State ==
    /\ jpc = "ab" => (callsAB <= 2 /\ callsBA = 0)
    /\ jpc = "ba" => (callsAB \in 1..3 /\ callsBA <= 2)
    /\ jpc = "done" =>
           /\ callsAB \in 1..3
           /\ callsBA \in 1..3
           /\ callsAB + callsBA >= 2
           /\ callsAB + callsBA <= 6
           /\ WellFormedVerdict(verdict)

C5_Step ==
    jpc \in {"ab", "ba"} =>
        /\ callsAB' + callsBA' = callsAB + callsBA + 1
        /\ jpc' \in {"ab", "ba", "done", "raised"}
        /\ (jpc' = "raised" => verdict' = NoResult)

\* C5: with every judge gateway call returning, evaluate_pair ends after at
\* least 2 and at most 6 judge calls, at most 3 per ordering, and returns a
\* well-formed verdict (a winner in {A, B, tie}, two scores, a list of
\* reasons).  Termination: while evaluate_pair runs, fewer than 6 calls
\* have been issued and every step issues exactly one more.
C5_TerminatesWellFormed == []C5_State /\ [][C5_Step]_vars

\* six malformed replies in a row still end in a verdict
C5_Witness ==
    jpc = "done" /\ callsAB + callsBA = 6 /\ verdict.winner = "tie"

(***************************************************************************)
(* Properties of a benchmark run, checked under Spec                       *)
(***************************************************************************)
Counted(st) == st.wins + st.ties + st.losses

\* the CaseResults of the log for a capability, for a test case
ResultsOfCap(cap) == { i \in 1..Len(results) : results[i].capability = cap }
ResultsOfCase(tc) == { i \in 1..Len(results) : results[i].test_id = tc.id }

\* C6: in a completed run, for every configured model and every active
\* capability, wins + ties + losses equals the number of test cases judged
\* for that capability.
C6_CountersMatchCases ==
    pc = "done" =>
        \A name \in {ModelA, ModelB} : \A cap \in Range(ActiveCaps) :
            /\ Counted(model_stats[name][cap]) = Cardinality(ResultsOfCap(cap))
            /\ Counted(model_stats[name][cap]) = Len(dataset)

InvalidConfig ==
    \/ Len(config.models) # 2
    \/ \E i \in 1..Len(config.capabilities) :
           config.capabilities[i] \notin {"chat_completion", "chat"}
    \/ \E i \in 1..Len(config.models) :
           config.models[i].provider \notin {"openai", "gemini", "anthropic"}
    \/ config.judge_provider \notin {"openai", "gemini", "anthropic"}

NothingRecorded ==
    /\ results = <<>>
    /\ summary = NoSummary
    /\ DOMAIN category_stats = {}
    /\ \A name \in DOMAIN model_stats : \A cap \in DOMAIN model_stats[name] :
           /\ Counted(model_stats[name][cap]) = 0
           /\ model_stats[name][cap].scores = <<>>

\* C7: a run whose configuration is invalid (not exactly two models, an
\* unknown capability name, a provider without adapter) fails with a
\* configuration error before any model or judge gateway call, and records
\* no statistics and no CaseResult.
C7_ConfigErrorBeforeCalls ==
    /\ (pc # "start" /\ InvalidConfig) =>
           /\ pc = "failed"
           /\ error = "config"
           /\ modelCalls = 0
           /\ ~judgeCalled
           /\ NothingRecorded
    /\ error = "config" => InvalidConfig

\* three models, a dataset to run: the run stops at the model count
C7_Witness ==
    /\ pc = "failed"
    /\ error = "config"
    /\ Len(config.models) = 3
    /\ dataset # <<>>
    /\ DOMAIN model_stats # {}

RECURSIVE WinsOver(_, _)
\* the wins of a model summed over a set of capabilities
WinsOver(name, caps) ==
    IF caps = {} THEN 0
    ELSE LET c == CHOOSE c \in caps : TRUE
         IN  model_stats[name][c].wins + WinsOver(name, caps \ {c})

\* C8: the overall winner is the model whose total win count (summed over
\* the capabilities) is strictly greater than the other's; equal totals,
\* 0 = 0 included, give "tie"; ties, losses and scores play no part.
C8_OverallWinnerByWins ==
    pc = "done" =>
        LET wa == WinsOver(ModelA, Range(ActiveCaps))
            wb == WinsOver(ModelB, Range(ActiveCaps))
        IN  /\ summary.built
            /\ ReadOverallWinner(summary) =
                   IF wa > wb THEN ModelA ELSE IF wb > wa THEN ModelB ELSE TieName
            /\ ModelA # ModelB => summary.overall_winner # Absent

\* model B wins one case of two and loses none, against more ties than wins
C8_Witness ==
    /\ pc = "done"
    /\ summary.overall_winner = ModelB
    /\ summary.models[ModelB].total_wins = 1
    /\ summary.models[ModelB].total_ties = 1
    /\ summary.models[ModelA].total_wins = 0

\* C9 as stated: a gateway error for either model aborts only the test case
\* in work; the run is not aborted.
C9_RunSurvivesModelError ==
    error = "model_gateway" => pc # "failed"

C9_AbortedState ==
    error = "model_gateway" =>
        /\ pc = "failed"
        /\ summary = NoSummary
        /\ Len(results) = (idx - 1) * Len(ActiveCaps) + (capPos - 1)
        /\ \A i \in 1..Len(results) :
               ~(results[i].test_id = dataset[idx].id
                 /\ results[i].capability = ActiveCaps[capPos])
        /\ \A i \in 1..Len(results) : results[i].test_id <= dataset[idx].id

C9_NoStepAfterError ==
    error = "model_gateway" => UNCHANGED vars

\* C9 amended: a gateway error for either model aborts the run: run() is
\* left by the exception, no CaseResult is recorded for the (test case,
\* capability) pair in work nor for any later one, nothing more is done and
\* no RunSummary is produced.
C9_ModelErrorAbortsRun == []C9_AbortedState /\ [][C9_NoStepAfterError]_vars

\* the second test case fails after the first was recorded
C9_Witness ==
    /\ error = "model_gateway"
    /\ pc = "failed"
    /\ idx = 2
    /\ Len(results) = 1
    /\ Len(dataset) = 2

\* C10: once a run has stopped (completion or gateway error), every test
\* case is either recorded in full, for both models and for each active
\* capability, or absent from the counters and the result log.
C10_CaseAtomic ==
    (pc \in {"done", "failed"} /\ error # "config") =>
        /\ \A i \in 1..Len(dataset) :
               Cardinality(ResultsOfCase(dataset[i])) \in {0, Len(ActiveCaps)}
        /\ \A cap \in Range(ActiveCaps) :
               /\ Counted(model_stats[ModelA][cap]) = Counted(model_stats[ModelB][cap])
               /\ Len(model_stats[ModelA][cap].scores) = Len(model_stats[ModelB][cap].scores)

(***************************************************************************)
(* The result log and the statistics, checked under Spec                   *)
(***************************************************************************)
\* the test case and the capability of the i-th (test case, capability) pair
\* of a run, test cases in dataset order
PairCase(i) == ((i - 1) \div Len(ActiveCaps)) + 1
PairCap(i) == ((i - 1) % Len(ActiveCaps)) + 1

\* the pairs completed so far, from the position of run()
PairsCompleted ==
    CASE pc \in {"start"} -> 0
      [] pc = "case" -> (idx - 1) * Len(ActiveCaps)
      [] pc \in {"genA", "genB", "judge"} -> (idx - 1) * Len(ActiveCaps) + (capPos - 1)
      [] pc \in {"summary", "done"} -> Len(dataset) * Len(ActiveCaps)
      [] OTHER -> Len(results)

C11_State ==
    /\ Len(results) = PairsCompleted
    /\ \A i \in 1..Len(results) :
           /\ results[i].test_id = dataset[PairCase(i)].id
           /\ results[i].capability = ActiveCaps[PairCap(i)]

C11_Step ==
    /\ Len(results') \in {Len(results), Len(results) + 1}
    /\ \A i \in 1..Len(results) : results'[i] = results[i]

\* C11: the CaseResult log is append-only and in dataset order: at every
\* point of a run it holds the results of the (test case, capability) pairs
\* completed so far, test cases in dataset order, and no step removes,
\* reorders or changes an entry already in it.
C11_LogAppendOnly == []C11_State /\ [][C11_Step]_vars

\* two test cases, both recorded
C11_Witness ==
    /\ Len(results) = 2
    /\ Len(dataset) = 2
    /\ results[1].test_id = dataset[1].id
    /\ results[2].test_id = dataset[2].id
    /\ results[1].test_id # results[2].test_id

\* C12: a test case whose "turns" field is missing or an empty list never
\* enters the pipeline: no model gateway call and no judge call is issued
\* for it and no CaseResult or statistics come from it.
C12_MalformedRejected ==
    /\ pc \in {"genB", "judge"} => validate_test_case(dataset[idx])
    /\ \A i \in 1..Len(results) : validate_test_case(dataset[PairCase(i)])

Min(a, b) == IF a <= b THEN a ELSE b

\* C13: with a max-item cap N >= 0 configured, a completed run has processed
\* exactly the first min(N, length of the dataset) test cases, in order, each
\* of them to completion.
C13_CapRespected ==
    (pc = "done" /\ config.max_items.k = "int") =>
        /\ Len(dataset) = Min(config.max_items.n, Len(dataset_file))
        /\ \A i \in 1..Len(dataset) : dataset[i] = dataset_file[i]
        /\ Len(results) = Len(dataset) * Len(ActiveCaps)

\* C14: in every run that passed the two-model check, the per-model
\* statistics have exactly two entries, every category entry has exactly two
\* model entries, and the responses of every CaseResult have two entries.
C14_TwoIdentities ==
    (pc \notin {"start"} /\ error # "config") =>
        /\ Cardinality(DOMAIN model_stats) = 2
        /\ \A c \in DOMAIN category_stats : Cardinality(DOMAIN category_stats[c]) = 2
        /\ \A i \in 1..Len(results) : Cardinality(DOMAIN results[i].responses) = 2

\* the counters of a model for a capability move by dw, dt, dl
CountersMove(name, cap, dw, dt, dl) ==
    /\ model_stats'[name][cap].wins = model_stats[name][cap].wins + dw
    /\ model_stats'[name][cap].ties = model_stats[name][cap].ties + dt
    /\ model_stats'[name][cap].losses = model_stats[name][cap].losses + dl
    /\ Len(model_stats'[name][cap].scores) = Len(model_stats[name][cap].scores) + 1

\* the counters of a model in a category move by dw, dt
CategoryMove(category, name, dw, dt) ==
    /\ category_stats'[category][name].wins = category_stats[category][name].wins + dw
    /\ category_stats'[category][name].ties = category_stats[category][name].ties + dt

C16_Step ==
    Len(results') = Len(results) + 1 =>
        LET r == results'[Len(results')]
            cap == r.capability
            cat == r.category
        IN  /\ CASE r.winner = "A" ->
                       /\ CountersMove(ModelA, cap, 1, 0, 0)
                       /\ CountersMove(ModelB, cap, 0, 0, 1)
                       /\ CategoryMove(cat, ModelA, 1, 0)
                       /\ CategoryMove(cat, ModelB, 0, 0)
                 [] r.winner = "B" ->
                       /\ CountersMove(ModelB, cap, 1, 0, 0)
                       /\ CountersMove(ModelA, cap, 0, 0, 1)
                       /\ CategoryMove(cat, ModelB, 1, 0)
                       /\ CategoryMove(cat, ModelA, 0, 0)
                 [] OTHER ->
                       /\ CountersMove(ModelA, cap, 0, 1, 0)
                       /\ CountersMove(ModelB, cap, 0, 1, 0)
                       /\ CategoryMove(cat, ModelA, 0, 1)
                       /\ CategoryMove(cat, ModelB, 0, 1)
            /\ \A name \in DOMAIN model_stats : \A c \in DOMAIN model_stats[name] :
                   c # cap => model_stats'[name][c] = model_stats[name][c]
            /\ \A c \in DOMAIN category_stats :
                   c # cat => category_stats'[c] = category_stats[c]

\* C16: for every judged (test case, capability) pair the statistics move in
\* one of three shapes: winner A - A.wins+1, B.losses+1, the category's
\* A.wins+1; winner B - the mirror image; otherwise both models' ties+1 in
\* the model and in the category statistics.  No other counter moves and
\* each model's score list grows by one entry.
C16_ThreeShapes == [][C16_Step]_vars

C18_State ==
    /\ pc = "genA" => (jpc = "idle" /\ modelCalls = 2 * Len(results))
    /\ pc = "genB" => (jpc = "idle" /\ modelCalls = 2 * Len(results) + 1)
    /\ pc = "judge" => (jpc # "idle" /\ modelCalls = 2 * Len(results) + 2)
    /\ jpc \in {"ab", "ba", "done"} => pc = "judge"

C18_Step ==
    /\ callsAB' + callsBA' > callsAB + callsBA =>
           /\ pc = "judge"
           /\ modelCalls = 2 * Len(results) + 2
           /\ responses.a # "" /\ responses.b # ""
           /\ attempt > 0 => (last_text # NoText /\ safe_json_loads(last_text) = None)
           /\ jpc = "ab" => callsAB = attempt
           /\ jpc = "ba" => (callsBA = attempt /\ j_ab.winner \in Winners)
    /\ (results' # results \/ (pc # "start" /\ model_stats' # model_stats)
                           \/ (pc \notin {"start", "case"} /\ category_stats' # category_stats)) =>
           /\ jpc = "done"
           /\ callsAB >= 1 /\ callsBA >= 1
           /\ j_ab.winner \in Winners /\ j_ba.winner \in Winners
           /\ Len(results') = Len(results) + 1
           /\ model_stats' # model_stats
    /\ modelCalls' > modelCalls =>
           /\ jpc = "idle"
           /\ Len(results) = (idx - 1) * Len(ActiveCaps) + (capPos - 1)

\* C18: for every (test case, capability) pair, both model gateway calls
\* have returned before the first judge call; a judge retry is issued only
\* after the previous reply was received and failed to parse; the statistics
\* update and the CaseResult append happen only after both the direct and
\* the swapped verdict exist; and the model calls of the next pair start
\* only after the CaseResult of the current one was appended.
C18_EventsOrdered == []C18_State /\ [][C18_Step]_vars

\* the second test case is being judged, the swapped ordering on its retry
C18_Witness ==
    /\ pc = "judge"
    /\ idx = 2
    /\ Len(results) = 1
    /\ jpc = "ba"
    /\ attempt = 1
    /\ modelCalls = 4

(***************************************************************************)
(* Reconciliation and the retry loop, checked under SpecJudge              *)
(***************************************************************************)
\* what _judge_once returns on the reply text it ended on
JudgeOutcome(t) ==
    IF safe_json_loads(t) # None THEN normalize_judge_result(safe_json_loads(t))
    ELSE FallbackVerdict(t)

C15_State ==
    /\ jpc \in {"ba", "done"} => j_ab = JudgeOutcome(reply.ab)
    /\ jpc = "done" =>
           /\ j_ba = JudgeOutcome(reply.ba)
           /\ verdict = Reconcile(JudgeOutcome(reply.ab), JudgeOutcome(reply.ba))

C15_Step ==
    (jpc' = "ab" /\ jpc # "ab") =>
        /\ attempt' = 0
        /\ messages' = <<Prompt(responses'.a, responses'.b)>>
        /\ last_text' = NoText
        /\ j_ab' = NoVerdict /\ j_ba' = NoVerdict /\ verdict' = NoResult
        /\ callsAB' = 0 /\ callsBA' = 0
        /\ reply' = NoReplies

\* C15: reconciliation is a pure deterministic function: the verdict of
\* evaluate_pair is a function of the two judge replies its orderings ended
\* on, whatever the responses, the retries and the evaluations before it;
\* every evaluate_pair call starts from fresh locals.
C15_ReconcilePure == []C15_State /\ [][C15_Step]_vars

\* both orderings needed a retry and agree on A
C15_Witness ==
    /\ jpc = "done"
    /\ callsAB = 2
    /\ callsBA = 2
    /\ verdict.winner = "A"

C17_State ==
    jpc \in {"ab", "ba"} =>
        /\ attempt \in 0..max_retries
        /\ Len(messages) = 1 + 2 * attempt
        /\ messages[1] = IF jpc = "ab" THEN Prompt(responses.a, responses.b)
                         ELSE Prompt(responses.b, responses.a)
        /\ \A k \in 1..attempt :
               /\ messages[2 * k].role = "assistant"
               /\ safe_json_loads(messages[2 * k].text) = None
               /\ messages[2 * k + 1].role = "user"
               /\ messages[2 * k + 1].kind = "nudge"
        /\ attempt > 0 => messages[2 * attempt].text = last_text
        /\ jpc = "ab" => (callsAB = attempt /\ unparsedAB = attempt)
        /\ jpc = "ba" => (callsBA = attempt /\ unparsedBA = attempt)

C17_Step ==
    /\ (jpc \in {"ab", "ba"} /\ jpc' = jpc) =>
           /\ attempt' = attempt + 1
           /\ safe_json_loads(last_text') = None
           /\ Len(messages') = Len(messages) + 2
           /\ \A i \in 1..Len(messages) : messages'[i] = messages[i]
           /\ messages'[Len(messages) + 1].text = last_text'
    /\ (jpc \in {"ab", "ba"} /\ jpc' \in {"ba", "done"} /\ jpc' # jpc) =>
           /\ safe_json_loads(reply'[jpc]) # None \/ attempt = max_retries
           /\ jpc' = "ba" => (attempt' = 0 /\ Len(messages') = 1)

\* C17: within one _judge_once call the k-th attempt (k = 1..3) sends the
\* prompt followed by k-1 pairs (assistant message repeating a malformed
\* reply verbatim, corrective user message), in the order the replies came;
\* a retry follows a parse failure only, the first parseable reply ends the
\* loop, and each ordering starts from a one-message history with its own
\* retry budget.
C17_RetryHistory == []C17_State /\ [][C17_Step]_vars

\* the swapped ordering on its third attempt after the direct one used up
\* its three, the two malformed replies of the history differing
C17_Witness ==
    /\ jpc = "ba"
    /\ attempt = 2
    /\ callsAB = 3
    /\ messages[2].text # messages[4].text
    /\ messages[4].text = last_text

\* out (tenths) is the average of x and y (halves) rounded to one decimal
IsRoundedAverage(out, x, y) ==
    IF x.k = "nan" \/ y.k = "nan" THEN out.k = "nan"
    ELSE /\ out.k = "fin"
         /\ 2 * out.n - 5 * (x.n + y.n) \in -1..1

\* C19: the final score of side A is the average of the direct score_A and
\* the swapped score_B, the final score of side B the average of the direct
\* score_B and the swapped score_A, each rounded to one decimal, also when
\* the winners disagree and the final winner is tie.
C19_ScoresAveraged ==
    jpc = "done" =>
        /\ IsRoundedAverage(verdict.score_A, j_ab.score_A, j_ba.score_B)
        /\ IsRoundedAverage(verdict.score_B, j_ab.score_B, j_ba.score_A)

\* both orderings prefer the response shown first, with scores 3.5/10 and 0/3.5
C19_Witness ==
    /\ jpc = "done"
    /\ j_ab.winner = "A" /\ j_ba.winner = "A"
    /\ verdict.winner = "tie"
    /\ j_ab.score_A = Fin(7) /\ j_ab.score_B = Fin(20)
    /\ j_ba.score_A = Fin(0) /\ j_ba.score_B = Fin(7)
    /\ verdict.score_A = Fin(35)
    /\ verdict.score_B = Fin(50)

\* the positions of l holding the first occurrence of their value
FirstSeen(l) == { i \in 1..Len(l) : \A j \in 1..(i - 1) : l[j] # l[i] }

\* the k-th smallest member of a set of positions
Kth(S, k) == CHOOSE i \in S : Cardinality({ j \in S : j < i }) = k - 1

\* C20: each normalized verdict carries at most 8 reasons, all strings; the
\* final reasons are the direct reasons followed by the swapped ones, later
\* duplicates removed in first-seen order, cut to at most 6 entries.
C20_ReasonsMerged ==
    /\ jpc \in {"ba", "done"} =>
           /\ Len(j_ab.reasons) <= 8
           /\ \A i \in 1..Len(j_ab.reasons) : j_ab.reasons[i] \in STRING
    /\ jpc = "done" =>
           /\ Len(j_ba.reasons) <= 8
           /\ \A i \in 1..Len(j_ba.reasons) : j_ba.reasons[i] \in STRING
           /\ LET all_reasons == j_ab.reasons \o j_ba.reasons
                  F == FirstSeen(all_reasons)
              IN  /\ Len(verdict.reasons) = Min(6, Cardinality(F))
                  /\ \A k \in 1..Len(verdict.reasons) :
                         verdict.reasons[k] = all_reasons[Kth(F, k)]

\* a repeated reason in the direct list, nine reasons in the swapped reply
C20_Witness ==
    /\ jpc = "done"
    /\ j_ab.reasons = <<"r2", "r1", "r2">>
    /\ Len(j_ba.reasons) = 8
    /\ verdict.reasons = <<"r2", "r1", "r3", "r4", "r5", "r6">>

(***************************************************************************)
(* Winners, averages and symmetry of the statistics, checked under Spec    *)
(***************************************************************************)
\* the winner field of the object a reply text carries
RawWinnerOf(t) == t.body.f.winner

\* C21: normalization turns every winner other than exactly "A", "B" or
\* "tie" (a missing one, another case such as "a", a non-string) into
\* "tie"; the winner of every normalized verdict, of every reconciled
\* verdict and of every CaseResult is in {A, B, tie}.
C21_WinnerCoerced ==
    /\ jpc \in {"ba", "done"} =>
           /\ j_ab.winner \in Winners
           /\ RawWinnerOf(reply.ab) \notin Winners => j_ab.winner = "tie"
    /\ jpc = "done" =>
           /\ j_ba.winner \in Winners
           /\ RawWinnerOf(reply.ba) \notin Winners => j_ba.winner = "tie"
           /\ verdict.winner \in Winners
    /\ \A i \in 1..Len(results) : results[i].winner \in Winners

\* the direct ordering answered "a", the swapped one "B", after a first
\* result was recorded
C21_Witness ==
    /\ jpc = "done"
    /\ RawWinnerOf(reply.ab) = "a"
    /\ j_ab.winner = "tie"
    /\ j_ba.winner = "B"
    /\ verdict.winner = "tie"
    /\ Len(results) = 1

\* the sum of a list of scores
Total(sc) ==
    LET S[i \in 0..Len(sc)] == IF i = 0 THEN 0 ELSE S[i - 1] + sc[i].n
    IN  S[Len(sc)]

\* avg (hundredths) is the mean of sc (tenths) to two decimals, 0 for no score
IsMean(avg, sc) ==
    IF sc = <<>> THEN avg = Fin(0)
    ELSE IF \E i \in 1..Len(sc) : sc[i].k = "nan" THEN avg.k = "nan"
    ELSE /\ avg.k = "fin"
         /\ 2 * (avg.n * Len(sc) - 10 * Total(sc)) \in (0 - Len(sc))..Len(sc)

\* the position of a capability among the active ones
CapIndex(cap) == CHOOSE j \in 1..Len(ActiveCaps) : ActiveCaps[j] = cap

C22_State ==
    pc = "done" =>
        /\ summary.built
        /\ summary.total_test_cases = Len(dataset)
        /\ \A name \in DOMAIN model_stats :
               /\ IsMean(summary.models[name].avg_score,
                         AllScores(model_stats[name], ActiveCaps))
               /\ \A cap \in Range(ActiveCaps) :
                      IsMean(summary.models[name].by_capability[cap].avg_score,
                             model_stats[name][cap].scores)
        /\ ModelA # ModelB =>
               \A name \in {ModelA, ModelB} : \A cap \in Range(ActiveCaps) :
                   LET sc == model_stats[name][cap].scores
                   IN  /\ Len(sc) = Len(dataset)
                       /\ \A k \in 1..Len(sc) :
                              sc[k] = results[(k - 1) * Len(ActiveCaps)
                                              + CapIndex(cap)].responses[name].score
        /\ dataset = <<>> =>
               /\ summary.total_test_cases = 0
               /\ ReadOverallWinner(summary) = TieName
               /\ \A name \in DOMAIN summary.models :
                      /\ summary.models[name].total_wins = 0
                      /\ summary.models[name].total_ties = 0
                      /\ summary.models[name].total_losses = 0
                      /\ summary.models[name].avg_score = Fin(0)
                      /\ \A cap \in Range(ActiveCaps) :
                             summary.models[name].by_capability[cap] =
                                 [wins |-> 0, ties |-> 0, losses |-> 0, avg_score |-> Fin(0)]

C22_Step ==
    summary' # summary =>
        /\ pc = "summary"
        /\ pc' = "done"
        /\ summary = NoSummary
        /\ Len(results) = Len(dataset) * Len(ActiveCaps)

\* C22: the summary's average score per (model, capability) is the mean of
\* exactly the per-case scores recorded for that pair (as the summary
\* stores it, to two decimals) and 0 when there is none; a run over an
\* empty dataset completes with all counters 0, all averages 0, total case
\* count 0 and overall winner "tie"; the summary is built once, after the
\* last test case.
C22_AveragesAndEmptyRun == []C22_State /\ [][C22_Step]_vars

\* two cases scored 8.0 and 3.0 for model A: average 5.5
C22_Witness ==
    /\ pc = "done"
    /\ ModelA # ModelB
    /\ ActiveCaps = <<"chat_completion">>
    /\ model_stats[ModelA]["chat_completion"].scores = <<Fin(80), Fin(30)>>
    /\ summary.models[ModelA].by_capability["chat_completion"].avg_score = Fin(550)

\* C23: in every reachable state of a run, for each capability, wins of
\* model A equal losses of model B, wins of B equal losses of A, ties of A
\* equal ties of B, and both score lists have the same length.
C23_ZeroSum ==
    (Len(config.models) = 2 /\ pc # "start" /\ error # "config") =>
        \A cap \in Range(ActiveCaps) :
            /\ model_stats[ModelA][cap].wins = model_stats[ModelB][cap].losses
            /\ model_stats[ModelB][cap].wins = model_stats[ModelA][cap].losses
            /\ model_stats[ModelA][cap].ties = model_stats[ModelB][cap].ties
            /\ Len(model_stats[ModelA][cap].scores) = Len(model_stats[ModelB][cap].scores)

\* one win of A and one tie, two distinct models
C23_Witness ==
    /\ Len(config.models) = 2
    /\ pc = "done"
    /\ ModelA # ModelB
    /\ model_stats[ModelA]["chat_completion"].wins = 1
    /\ model_stats[ModelB]["chat_completion"].losses = 1
    /\ model_stats[ModelB]["chat_completion"].ties = 1

RECURSIVE CategoryWins(_, _)
\* the wins of a model summed over a set of categories
CategoryWins(name, cats) ==
    IF cats = {} THEN 0
    ELSE LET c == CHOOSE c \in cats : TRUE
         IN  category_stats[c][name].wins + CategoryWins(name, cats \ {c})

\* C24: in every reachable state, for each category wins(A) + wins(B) +
\* ties(A) equals the number of CaseResults of that category, ties(A) =
\* ties(B), and a model's wins summed over the categories are its wins
\* summed over the capabilities.
C24_CategoryConsistent ==
    (Len(config.models) = 2 /\ pc # "start" /\ error # "config") =>
        /\ \A c \in DOMAIN category_stats :
               /\ category_stats[c][ModelA].wins + category_stats[c][ModelB].wins
                      + category_stats[c][ModelA].ties
                  = Cardinality({ i \in 1..Len(results) : results[i].category = c })
               /\ category_stats[c][ModelA].ties = category_stats[c][ModelB].ties
        /\ \A name \in {ModelA, ModelB} :
               CategoryWins(name, DOMAIN category_stats) = WinsOver(name, Range(ActiveCaps))

\* C29: in every completed run each model's total_wins + total_ties +
\* total_losses equals total_test_cases times the number of active
\* capabilities, and total_test_cases is the number of dataset items
\* processed.
C29_TotalsMatchCases ==
    pc = "done" =>
        /\ summary.total_test_cases = Len(dataset)
        /\ Len(results) = summary.total_test_cases * Len(ActiveCaps)
        /\ \A name \in DOMAIN summary.models :
               summary.models[name].total_wins + summary.models[name].total_ties
                   + summary.models[name].total_losses
               = summary.total_test_cases * Len(ActiveCaps)

\* C30: a gateway error of a model call or of a judge call leaves the model
\* statistics, the category statistics (categories and counters), the
\* result log and the empty summary as they were before the test case in
\* work was started.
C30_ErrorLeavesNoTrace ==
    error \in {"model_gateway", "judge_gateway"} =>
        /\ summary = NoSummary
        /\ Len(results) = (idx - 1) * Len(ActiveCaps)
        /\ DOMAIN category_stats = { CaseCategory(dataset[i]) : i \in 1..(idx - 1) }
        /\ \A cap \in Range(ActiveCaps) :
               Len(model_stats[ModelA][cap].scores)
                   = (IF ModelA = ModelB THEN 2 ELSE 1) * (idx - 1)

(***************************************************************************)
(* Fallback and acceptance of replies, checked under SpecJudge             *)
(***************************************************************************)
\* C25: when either ordering exhausts its retries and falls back, the
\* reconciled winner is "tie" whatever the other ordering said, and the 0
\* scores of the fallback are averaged into both final scores.
C25_FallbackIsTie ==
    jpc = "done" =>
        /\ unparsedAB = max_retries + 1 =>
               /\ verdict.winner = "tie"
               /\ IsRoundedAverage(verdict.score_A, Fin(0), j_ba.score_B)
               /\ IsRoundedAverage(verdict.score_B, Fin(0), j_ba.score_A)
        /\ unparsedBA = max_retries + 1 =>
               /\ verdict.winner = "tie"
               /\ IsRoundedAverage(verdict.score_A, j_ab.score_A, Fin(0))
               /\ IsRoundedAverage(verdict.score_B, j_ab.score_B, Fin(0))

\* the direct ordering never parsed, the swapped one named a winner
C25_Witness ==
    /\ jpc = "done"
    /\ unparsedAB = 3
    /\ j_ba.winner = "B"
    /\ j_ba.score_B = Fin(20)
    /\ verdict.winner = "tie"
    /\ verdict.score_A = Fin(50)

\* a text json.loads rejects or reads as null
Unparseable(t) == t.fence = "open" \/ t.body.kind \in {"garbage", "null"}

\* the verdict an accepted reply must give where it is not an object or
\* lacks fields
AcceptedShape(t, j) ==
    /\ t.body.kind = "scalar" =>
           (j.winner = "tie" /\ j.score_A = Fin(0) /\ j.score_B = Fin(0))
    /\ t.body.kind = "dict" =>
           /\ t.body.f.winner = MISSING => j.winner = "tie"
           /\ t.body.f.score_A.k = "missing" => j.score_A = Fin(0)
           /\ t.body.f.score_B.k = "missing" => j.score_B = Fin(0)
           /\ t.body.f.reasons.k = "missing" => j.reasons = <<>>

C26_State ==
    /\ jpc \in {"ba", "done"} =>
           IF Unparseable(reply.ab) THEN callsAB = max_retries + 1 /\ unparsedAB = callsAB
           ELSE unparsedAB = callsAB - 1 /\ AcceptedShape(reply.ab, j_ab)
    /\ jpc = "done" =>
           IF Unparseable(reply.ba) THEN callsBA = max_retries + 1 /\ unparsedBA = callsBA
           ELSE unparsedBA = callsBA - 1 /\ AcceptedShape(reply.ba, j_ba)

C26_Step ==
    (jpc \in {"ab", "ba"} /\ jpc' = jpc) => Unparseable(last_text')

\* C26: only a reply that fails to parse as JSON, or parses to null,
\* consumes a retry; a reply that parses to any other JSON value is
\* accepted on that attempt without a further judge call, also when it is
\* not an object (winner tie, scores 0/0) or an object lacking fields
\* (winner tie, scores 0, no reasons).
C26_OnlyParseFailureRetries == []C26_State /\ [][C26_Step]_vars

\* a bare scalar for the direct ordering, {} for the swapped one, one call each
C26_Witness ==
    /\ jpc = "done"
    /\ reply.ab.body.kind = "scalar"
    /\ callsAB = 1
    /\ reply.ba.body = EmptyDict
    /\ callsBA = 1
    /\ j_ba.reasons = <<>>
    /\ verdict.winner = "tie"
    /\ verdict.reasons = <<"Invalid judge output (not a dict).">>

(***************************************************************************)
(* evaluate_pair called twice, the responses exchanged, on a judge that is *)
(* a function of the prompt it is shown                                    *)
(***************************************************************************)
\* the replies of the judge model
MirrorReplies ==
    { Text("none", SampleA),
      Text("none", JsonDict("B", RawNum(7), RawNum(2 * ScoreMax + Overshoot), ListReasons)),
      Text("none", JsonDict("tie", RawOther("nan"), RawNum(7), ListReasons)),
      Text("none", JsonOther("garbage")) }

\* the two orders in which the responses x and y are shown
PromptOrders == { <<"x", "y">>, <<"y", "x">> }

\* the judge model: for each order, its reply at each attempt (the history
\* sent at an attempt is fixed by the replies before it)
Oracles == [PromptOrders -> [1..(max_retries + 1) -> MirrorReplies]]

\* the reply of the judge model to the messages of the running _judge_once
OracleReply == oracle[<<messages[1].first, messages[1].second>>][attempt + 1]

\* the caller's first call: evaluate_pair(conv, x, y)
MirrorFirst ==
    /\ jpc = "idle"
    /\ CallEvaluatePair("x", "y")

\* the gateway returns what the judge model replies
OracleCall == JudgeCall(OracleReply)

\* the caller keeps the verdict and calls evaluate_pair(conv, y, x)
MirrorSecond ==
    /\ pc = "standalone"
    /\ jpc = "done"
    /\ earlier = NoResult
    /\ earlier' = verdict
    /\ responses' = [a |-> responses.b, b |-> responses.a]
    /\ BeginEvaluatePair(responses.b, responses.a)
    /\ UNCHANGED <<config, dataset_file, dataset, pc, idx, capPos, model_stats,
                   category_stats, results, summary, error, modelCalls, judgeCalled>>
    /\ UNCHANGED oracle

InitMirror ==
    /\ config = [models |-> <<Gpt, Flash>>, capabilities |-> <<"chat_completion">>,
                 judge_provider |-> "openai", max_items |-> NoneItems]
    /\ dataset_file = <<>>
    /\ dataset = <<>>
    /\ pc = "standalone"
    /\ idx = 0
    /\ capPos = 0
    /\ responses = NoResponses
    /\ model_stats = EmptyMap
    /\ category_stats = EmptyMap
    /\ results = <<>>
    /\ summary = NoSummary
    /\ error = "none"
    /\ modelCalls = 0
    /\ judgeCalled = FALSE
    /\ jpc = "idle"
    /\ attempt = 0
    /\ messages = <<>>
    /\ last_text = NoText
    /\ j_ab = NoVerdict
    /\ j_ba = NoVerdict
    /\ verdict = NoResult
    /\ callsAB = 0
    /\ callsBA = 0
    /\ unparsedAB = 0
    /\ unparsedBA = 0
    /\ reply = NoReplies
    /\ oracle \in Oracles
    /\ earlier = NoResult

NextMirror ==
    \/ MirrorFirst
    \/ OracleCall
    \/ MirrorSecond

SpecMirror == InitMirror /\ [][NextMirror]_vars

Mirror(w) == CASE w = "A" -> "B" [] w = "B" -> "A" [] OTHER -> w

\* C27: with a judge that is a function of the prompt it is shown,
\* evaluate_pair(conv, y, x) returns the mirror of evaluate_pair(conv, x, y):
\* the winners A and B exchanged (tie stays tie), score_A and score_B
\* exchanged.
C27_Antisymmetric ==
    (jpc = "done" /\ earlier # NoResult) =>
        /\ verdict.winner = Mirror(earlier.winner)
        /\ verdict.score_A = earlier.score_B
        /\ verdict.score_B = earlier.score_A

\* the first call gave A with unequal scores, the mirrored call gives B
C27_Witness ==
    /\ jpc = "done"
    /\ earlier.winner = "A"
    /\ verdict.winner = "B"
    /\ earlier.score_A # earlier.score_B
    /\ verdict.score_A = earlier.score_B

(***************************************************************************)
(* run() called again on the same engine                                   *)
(***************************************************************************)
\* a caller invokes run(dataset_path) again after a completed run: the
\* locals of the first call are gone, self.results and self.summary are not
RunAgain ==
    /\ pc = "done"
    /\ Len(results) + Len(dataset) * Len(ActiveCaps) <= MaxPairs
    /\ pc' = "start"
    /\ dataset' = <<>>
    /\ idx' = 0
    /\ capPos' = 0
    /\ model_stats' = EmptyMap
    /\ category_stats' = EmptyMap
    /\ UNCHANGED <<config, dataset_file, responses, results, summary, error,
                   modelCalls, judgeCalled>>
    /\ UNCHANGED jvars
    /\ UNCHANGED mvars

NextRerun ==
    \/ Next
    \/ RunAgain

SpecRerun == Init /\ [][NextRerun]_vars

\* the CaseResults of the log a side won
WonBy(side) == { i \in 1..Len(results) : results[i].winner = side }

\* C28: after every successful run() on an engine, a second one included,
\* the number of detailed results equals (test cases processed in that run)
\* x (active capabilities), and for each model the number of detailed
\* results it won equals its total_wins in the summary.
C28_ResultAgreesWithItself ==
    pc = "done" =>
        /\ Len(results) = Len(dataset) * Len(ActiveCaps)
        /\ Cardinality(WonBy("A")) = summary.models[ModelA].total_wins
        /\ Cardinality(WonBy("B")) = summary.models[ModelB].total_wins

====
